---- MODULE Spec2Model ----
(***************************************************************************)
(* A model of four pieces of MediaGoblin:                                  *)
(*   - GenerateSlugMixin.generate_slug and the owner-scoped slug checks    *)
(*     (mediagoblin/db/mixin.py),                                          *)
(*   - MediaEntryMixin.media_manager / thumb_url (mediagoblin/db/mixin.py),*)
(*   - the bcrypt password helpers of the basic_auth plugin                *)
(*     (mediagoblin/plugins/basic_auth/{__init__,tools}.py),               *)
(*   - send_email and its test inboxes (mediagoblin/tools/mail.py).        *)
(*                                                                         *)
(* Text is a sequence of one-character strings.  Python's None, where a    *)
(* text is expected, is the one-element sequence NoneStr, which no text    *)
(* of the model contains; an absent id is NoId.                            *)
(***************************************************************************)
EXTENDS Integers, Sequences, FiniteSets, TLC

VARIABLES
    \* ---- slugs (db/mixin.py) ----
    db,         \* committed rows: [kind, id, owner, slug]
    nextId,     \* per table, the id the next inserted row gets
    ent,        \* the entity generate_slug runs on: [kind, id, owner, slug, title]
    pc,         \* "idle" | "loop" (in the while loop) | "done" (returned)
    call,       \* history of the running generate_slug call (see NoCall)
    \* ---- media manager (db/mixin.py) ----
    registry,   \* media types with a registered ('media_manager', type) hook
    entries,    \* entry id -> [media_type, media_files, manager]
    access,     \* outcome of the last property access
    \* ---- passwords (plugins/basic_auth) ----
    auth,       \* inputs and results of the password operations
    work,       \* bcrypt operations done by the last check / fake attempt
    users,      \* the User table, in insertion order: [id, username, email, pw_hash]
    created,    \* the last create_user call: its form, the table before, its result
    \* ---- mail (tools/mail.py) ----
    config,     \* TESTS_ENABLED and the email_* app_config entries
    EMAIL_TEST_INBOX,
    EMAIL_TEST_MBOX_INBOX,
    world,      \* outside the module: SMTP connections, logins, mails, stdout
    sent        \* send_email calls since the last _clear_test_inboxes()

slugVars  == <<db, nextId, ent, pc, call>>
mediaVars == <<registry, entries, access>>
authVars  == <<auth, work>>
userVars  == <<users, created>>
mailVars  == <<config, EMAIL_TEST_INBOX, EMAIL_TEST_MBOX_INBOX, world, sent>>
vars      == <<db, nextId, ent, pc, call, registry, entries, access,
               auth, work, users, created, config, EMAIL_TEST_INBOX, EMAIL_TEST_MBOX_INBOX,
               world, sent>>

----------------------------------------------------------------------------
(* Text helpers *)

NoneStr == <<"None">>
NoId == 0

\* Python truthiness of an optional text: neither None nor u"".
Truthy(s) == s # NoneStr /\ s # <<>>

IsPrefix(s, t) == Len(s) <= Len(t) /\ SubSeq(t, 1, Len(s)) = s
IsStrictPrefix(s, t) == Len(s) < Len(t) /\ SubSeq(t, 1, Len(s)) = s

DigitChars == <<"0", "1", "2", "3", "4", "5", "6", "7", "8", "9">>

\* u"%s" % n for a non-negative integer n.
RECURSIVE Decimal(_)
Decimal(n) ==
    IF n < 10 THEN <<DigitChars[n + 1]>>
    ELSE Decimal(n \div 10) \o <<DigitChars[(n % 10) + 1]>>

----------------------------------------------------------------------------
(* mediagoblin.tools.url.slugify: lower-case the text, split it at runs of *)
(* punctuation, drop the empty words and join the rest with '-'.           *)

PunctChars == {" ", "-", ":", "!"}

Lower(c) == IF c = "A" THEN "a" ELSE IF c = "B" THEN "b" ELSE c

\* _punct_re.split(text.lower()), without the empty words.
RECURSIVE SplitWords(_, _, _)
SplitWords(text, i, word) ==
    IF i > Len(text)
    THEN IF word = <<>> THEN <<>> ELSE <<word>>
    ELSE IF text[i] \in PunctChars
         THEN (IF word = <<>> THEN <<>> ELSE <<word>>)
              \o SplitWords(text, i + 1, <<>>)
         ELSE SplitWords(text, i + 1, Append(word, Lower(text[i])))

RECURSIVE JoinWords(_, _)
JoinWords(words, delim) ==
    IF words = <<>> THEN <<>>
    ELSE IF Len(words) = 1 THEN words[1]
    ELSE words[1] \o delim \o JoinWords(Tail(words), delim)

slugify(text) == JoinWords(SplitWords(text, 1, <<>>), <<"-">>)

----------------------------------------------------------------------------
(* Slugs: bounds and inputs *)

MaxEntities == 3

Kinds == {"media", "collection"}
Owners == {1, 2}

\* Slugs and titles a user submits: absent, empty, punctuation only,
\* upper case, and two words of which the second looks like an id.
InputForms ==
    { [slug |-> NoneStr,          title |-> NoneStr],
      [slug |-> <<>>,             title |-> <<"!", " ">>],
      [slug |-> NoneStr,          title |-> <<"A">>],
      [slug |-> <<>>,             title |-> <<"a", " ", "2">>],
      [slug |-> <<"!", " ">>,     title |-> <<"A">>],
      [slug |-> <<"A">>,          title |-> <<"a", " ", "2">>] }

\* uuid.uuid4().hex[:4]: four hexadecimal characters.
HexGroups == { <<"a", "a", "a", "a">>, <<"1", "f", "0", "e">> }

\* The history of one generate_slug call.
NoCall ==
    [slug0 |-> NoneStr,      \* self.slug and self.title when called
     title0 |-> NoneStr,
     basis |-> NoneStr,      \* self.slug after line 93
     titleRead |-> FALSE,    \* slugify(self.title) was evaluated
     checks |-> <<>>,        \* arguments of check_slug_used, in order
     idTried |-> FALSE,      \* slug_with_id was built and checked
     randoms |-> 0,          \* uuid4() calls
     rejected |-> <<>>]      \* random candidates reported used

NoEntity == [kind |-> "media", id |-> NoId, owner |-> 1,
             slug |-> NoneStr, title |-> NoneStr]

SlugIdle ==
    /\ db = {}
    /\ nextId = [k \in Kinds |-> 1]
    /\ ent = NoEntity
    /\ pc = "idle"
    /\ call = NoCall

----------------------------------------------------------------------------
(* mediagoblin.db.util.check_media_slug_used / check_collection_slug_used: *)
(* is there a committed row of this owner with this slug, other than the   *)
(* row ignore_id (no row is left out when ignore_id is None)?              *)

check_media_slug_used(uploader_id, slug, ignore_m_id) ==
    \E r \in db :
        /\ r.kind = "media"
        /\ r.owner = uploader_id
        /\ r.slug = slug
        /\ (ignore_m_id # NoId => r.id # ignore_m_id)

check_collection_slug_used(creator_id, slug, ignore_c_id) ==
    \E r \in db :
        /\ r.kind = "collection"
        /\ r.owner = creator_id
        /\ r.slug = slug
        /\ (ignore_c_id # NoId => r.id # ignore_c_id)

MediaEntry_check_slug_used(self, slug) ==
    check_media_slug_used(self.owner, slug, self.id)

Collection_check_slug_used(self, slug) ==
    check_collection_slug_used(self.owner, slug, self.id)

\* self.check_slug_used(slug), by the class of self.
check_slug_used(self, slug) ==
    IF self.kind = "media" THEN MediaEntry_check_slug_used(self, slug)
    ELSE Collection_check_slug_used(self, slug)

----------------------------------------------------------------------------
(* GenerateSlugMixin.generate_slug, piece by piece *)

\* "if self.slug: ... elif self.title: ..." reads the title only here.
TitleConsulted(slug, title) == ~Truthy(slug) /\ Truthy(title)

\* self.slug after the if/elif of lines 83-89.
TitleFirstSource(slug, title) ==
    IF Truthy(title) THEN slugify(title)
    ELSE IF Truthy(slug) THEN slugify(slug)
    ELSE slug
SlugSource(slug, title) ==
    IF Truthy(slug) THEN slugify(slug)
    ELSE IF Truthy(title) THEN slugify(title)
    ELSE slug

\* lines 92-93: no empty-string slugs.
DropEmptySlug(slug) == IF slug = <<>> THEN NoneStr ELSE slug

SlugBasis(slug, title) == DropEmptySlug(SlugSource(slug, title))

\* line 106: "if self.id".
NeverHasId(id) == FALSE
HasId(id) == id # NoId /\ id # 0

\* line 107: u"%s-%s" % (self.slug, self.id)
SlugWithId(slug, id) == slug \o <<"-">> \o Decimal(id)

\* line 108: the id-suffixed candidate is taken only when it is unused.
IdCandidateUnchecked(self, slug_with_id) == TRUE
IdCandidateFree(self, slug_with_id) == ~check_slug_used(self, slug_with_id)

\* line 114: self.slug += '-' + uuid.uuid4().hex[:4], where self.slug is
\* still the basis (slug_with_id is a local that was not assigned).
FirstRandomOnIdSlug(self, basis, hex) ==
    (IF HasId(self.id) THEN SlugWithId(basis, self.id) ELSE basis)
        \o <<"-">> \o hex
FirstRandomSlug(self, basis, hex) == basis \o <<"-">> \o hex

\* line 117: self.slug += uuid.uuid4().hex[:4]
ReplaceRandomSlug(slug, hex) == SubSeq(slug, 1, Len(slug) - Len(hex)) \o hex
NextRandomSlug(slug, hex) == slug \o hex

\* line 116: the loop condition.
LoopContinues(self) == check_slug_used(self, self.slug)

----------------------------------------------------------------------------
(* Slug actions *)

\* generate_slug on the entity self, from its first line to its first
\* return or to the first test of the while loop (lines 83-114).
GenerateSlug(self) ==
    /\ LET basis == SlugBasis(self.slug, self.title)
           c0 == [NoCall EXCEPT
                    !.slug0 = self.slug,
                    !.title0 = self.title,
                    !.basis = basis,
                    !.titleRead = TitleConsulted(self.slug, self.title)]
           withId == SlugWithId(basis, self.id)
       IN  IF ~Truthy(basis)
           THEN \* line 99: giving up
                /\ ent' = [self EXCEPT !.slug = basis]
                /\ call' = c0
                /\ pc' = "done"
           ELSE IF ~check_slug_used(self, basis)
           THEN \* line 102 is false: the basis is the slug
                /\ ent' = [self EXCEPT !.slug = basis]
                /\ call' = [c0 EXCEPT !.checks = <<basis>>]
                /\ pc' = "done"
           ELSE IF HasId(self.id) /\ IdCandidateFree(self, withId)
           THEN \* line 110: success with the id
                /\ ent' = [self EXCEPT !.slug = withId]
                /\ call' = [c0 EXCEPT !.checks = <<basis, withId>>,
                                      !.idTried = TRUE]
                /\ pc' = "done"
           ELSE \* line 114: the first random candidate
                \E hex \in HexGroups :
                    /\ ent' = [self EXCEPT
                                 !.slug = FirstRandomSlug(self, basis, hex)]
                    /\ call' = [c0 EXCEPT
                                 !.checks = IF HasId(self.id)
                                            THEN <<basis, withId>>
                                            ELSE <<basis>>,
                                 !.idTried = HasId(self.id),
                                 !.randoms = 1]
                    /\ pc' = "loop"
    /\ UNCHANGED <<db, nextId>>

\* A new, unsaved entity (no id yet) gets the submitted slug and title, of
\* one of the given kinds and owners and from one of the given forms, and
\* generate_slug is called on it.
NewEntityOf(kinds, owners, forms) ==
    /\ pc = "idle"
    /\ Cardinality(db) < MaxEntities
    /\ \E k \in kinds, o \in owners, f \in forms :
        GenerateSlug([kind |-> k, id |-> NoId, owner |-> o,
                      slug |-> f.slug, title |-> f.title])

NewEntity == NewEntityOf(Kinds, Owners, InputForms)

\* A committed entity is loaded and edited: its slug is kept or replaced by
\* the submitted one, its title replaced, and generate_slug is called on it.
EditEntityOf(forms) ==
    /\ pc = "idle"
    /\ \E r \in db :
        \E f \in forms \cup {[slug |-> r.slug, title |-> <<"A">>]} :
            GenerateSlug([kind |-> r.kind, id |-> r.id, owner |-> r.owner,
                          slug |-> f.slug, title |-> f.title])

EditEntity == EditEntityOf(InputForms)

\* lines 116-117: the candidate is in use, more junk is appended.
LoopIterate ==
    /\ pc = "loop"
    /\ LoopContinues(ent)
    /\ \E hex \in HexGroups :
        ent' = [ent EXCEPT !.slug = NextRandomSlug(ent.slug, hex)]
    /\ call' = [call EXCEPT !.checks = Append(@, ent.slug),
                            !.rejected = Append(@, ent.slug),
                            !.randoms = @ + 1]
    /\ UNCHANGED <<db, nextId, pc>>

\* line 116: the candidate is unused, the loop and the call end.
LoopExit ==
    /\ pc = "loop"
    /\ ~LoopContinues(ent)
    /\ call' = [call EXCEPT !.checks = Append(@, ent.slug)]
    /\ pc' = "done"
    /\ UNCHANGED <<db, nextId, ent>>

\* The caller saves the entity: a new row gets the table's next id, an
\* edited row is replaced.  The request ends and its objects are dropped.
Commit ==
    /\ pc = "done"
    /\ IF ent.id = NoId
       THEN /\ db' = db \cup {[kind |-> ent.kind, id |-> nextId[ent.kind],
                               owner |-> ent.owner, slug |-> ent.slug]}
            /\ nextId' = [nextId EXCEPT ![ent.kind] = @ + 1]
       ELSE /\ db' = {r \in db : ~(r.kind = ent.kind /\ r.id = ent.id)}
                     \cup {[kind |-> ent.kind, id |-> ent.id,
                            owner |-> ent.owner, slug |-> ent.slug]}
            /\ nextId' = nextId
    /\ pc' = "idle"
    /\ ent' = NoEntity
    /\ call' = NoCall

----------------------------------------------------------------------------
(* MediaEntryMixin.media_manager and thumb_url *)

MediaTypes == {"image", "video", "ascii"}
EntryIds == {1, 2}
FileKeys == {"thumb", "original"}

NoManager == [for_type |-> "none", entry |-> 0]
NoUrl == [via |-> "none", entry |-> 0, what |-> "none"]
NoAccess == [op |-> "none", entry |-> 0, outcome |-> "none",
             manager |-> NoManager, url |-> NoUrl,
             hookCalled |-> FALSE, managerRead |-> FALSE]

MediaIdle ==
    /\ registry = {}
    /\ entries = [e \in EntryIds |->
                    [media_type |-> "image", media_files |-> {},
                     manager |-> NoManager]]
    /\ access = NoAccess

\* What the application is set up with: the enabled media-type plugins and
\* entries with or without a thumbnail; no manager is cached on a freshly
\* loaded entry.
MediaInit ==
    /\ registry \in SUBSET MediaTypes
    /\ entries \in [EntryIds ->
                      [media_type : MediaTypes,
                       media_files : {{}, {"original"}, {"thumb", "original"}},
                       manager : {NoManager}]]
    /\ access = NoAccess

\* mediagoblin.tools.pluginapi.hook_handle(('media_manager', media_type)):
\* the registered handler's answer, or None when no handler is registered.
hook_handle(media_type) ==
    IF media_type \in registry
    THEN [for_type |-> media_type, entry |-> 0]
    ELSE NoManager

\* The body of media_manager (lines 206-213): [outcome, value].
media_manager_fget(e) ==
    LET manager == hook_handle(entries[e].media_type)
    IN  IF manager # NoManager
        THEN [outcome |-> "returned",
              value |-> [manager EXCEPT !.entry = e]]
        ELSE [outcome |-> "FileTypeNotSupported", value |-> NoManager]

\* werkzeug's cached_property (line 200): the body runs unless the
\* instance already holds a value, and a returned value is kept.
media_manager(e) ==
    IF entries[e].manager # NoManager
    THEN [outcome |-> "returned", value |-> entries[e].manager,
          hookCalled |-> FALSE]
    ELSE [outcome |-> media_manager_fget(e).outcome,
          value |-> media_manager_fget(e).value,
          hookCalled |-> TRUE]

\* line 189: the manager is needed only without a 'thumb' file.
AlwaysNeedsManager(media_files) == TRUE
ThumbNeedsManager(media_files) == ~("thumb" \in media_files)

\* mg_globals.app.public_store.file_url(self.media_files[u'thumb'])
FileUrl(e, key) == [via |-> "file_url", entry |-> e, what |-> key]
\* mg_globals.app.staticdirector(manager[u'default_thumb'])
StaticUrl(manager) ==
    [via |-> "static", entry |-> 0, what |-> manager.for_type]

AccessMediaManager ==
    \E e \in EntryIds :
        LET r == media_manager(e)
        IN  /\ access' = [op |-> "media_manager", entry |-> e,
                          outcome |-> r.outcome,
                          manager |-> r.value,
                          url |-> NoUrl,
                          hookCalled |-> r.hookCalled,
                          managerRead |-> TRUE]
            /\ entries' = [entries EXCEPT ![e].manager = r.value]
            /\ UNCHANGED registry

AccessThumbUrl ==
    \E e \in EntryIds :
        IF ThumbNeedsManager(entries[e].media_files)
        THEN LET r == media_manager(e)
             IN  /\ access' = [op |-> "thumb_url", entry |-> e,
                               outcome |-> r.outcome,
                               manager |-> NoManager,
                               url |-> IF r.outcome = "returned"
                                       THEN StaticUrl(r.value) ELSE NoUrl,
                               hookCalled |-> r.hookCalled,
                               managerRead |-> TRUE]
                 /\ entries' = [entries EXCEPT ![e].manager = r.value]
                 /\ UNCHANGED registry
        ELSE /\ access' = [op |-> "thumb_url", entry |-> e,
                           outcome |-> "returned",
                           manager |-> NoManager,
                           url |-> FileUrl(e, "thumb"),
                           hookCalled |-> FALSE,
                           managerRead |-> FALSE]
             /\ UNCHANGED <<registry, entries>>

----------------------------------------------------------------------------
(* bcrypt, as a collision-free hash: a salt is a cost factor and a nonce,  *)
(* a hash names its salt and the text it was computed from, so two hashes  *)
(* are equal exactly when salt and text are.                               *)

DefaultLogRounds == 12      \* bcrypt.gensalt() without an argument
CheckLogRounds == 5         \* bcrypt.gensalt(5) in bcrypt_check_password
FakeLogRounds == 5          \* bcrypt.gensalt(5) in fake_login_attempt

Nonces == {1, 2}

\* No stored hash: pw_hash is None, or the empty string.
NoHash == [rounds |-> 0, nonce |-> 0, of |-> <<>>]
EmptyHash == [rounds |-> 0, nonce |-> 0, of |-> <<"">>]

gensalt(log_rounds, nonce) == [rounds |-> log_rounds, nonce |-> nonce]

\* bcrypt.hashpw(password, salt): salt is a salt or a hash, whose salt is
\* then used.
hashpw(password, salt) ==
    [rounds |-> salt.rounds, nonce |-> salt.nonce, of |-> password]

GensaltOp(salt) == [op |-> "gensalt", rounds |-> salt.rounds]
HashpwOp(salt) == [op |-> "hashpw", rounds |-> salt.rounds]

\* u"%s:%s" % (extra_salt, raw_pass), when there is an extra salt.
WithExtraSalt(raw_pass, extra_salt) ==
    IF Truthy(extra_salt) THEN extra_salt \o <<":">> \o raw_pass
    ELSE raw_pass

\* The final comparison of bcrypt_check_password (line 54).
NeverEqual(randplus_stored_hash, randplus_hashed_pass) == FALSE
HashesEqual(randplus_stored_hash, randplus_hashed_pass) ==
    randplus_stored_hash = randplus_hashed_pass

\* bcrypt_check_password; nonce is what bcrypt.gensalt(5) draws.
bcrypt_check_password(raw_pass, stored_hash, extra_salt, nonce) ==
    LET salted == WithExtraSalt(raw_pass, extra_salt)
        hashed_pass == hashpw(salted, stored_hash)
        rand_salt == gensalt(CheckLogRounds, nonce)
        randplus_stored_hash == hashpw(stored_hash, rand_salt)
        randplus_hashed_pass == hashpw(hashed_pass, rand_salt)
    IN  [result |-> IF HashesEqual(randplus_stored_hash, randplus_hashed_pass)
                    THEN "True" ELSE "False",
         work |-> <<HashpwOp(stored_hash), GensaltOp(rand_salt),
                    HashpwOp(rand_salt), HashpwOp(rand_salt)>>]

\* bcrypt_gen_password_hash; nonce is what bcrypt.gensalt() draws.
bcrypt_gen_password_hash(raw_pass, extra_salt, nonce) ==
    hashpw(WithExtraSalt(raw_pass, extra_salt),
           gensalt(DefaultLogRounds, nonce))

\* fake_login_attempt: the bcrypt operations it performs (its comparison
\* is thrown away).
fake_login_attempt(nonce) ==
    LET rand_salt == gensalt(FakeLogRounds, nonce)
    IN  <<GensaltOp(rand_salt), HashpwOp(rand_salt),
          HashpwOp(rand_salt), HashpwOp(rand_salt)>>

\* The plugin's hooks.
gen_password_hash(raw_pass, extra_salt, nonce) ==
    bcrypt_gen_password_hash(raw_pass, extra_salt, nonce)

\* "if stored_hash" (line 90).
AnyStoredHash(stored_hash) == TRUE
HasStoredHash(stored_hash) == stored_hash \notin {NoHash, EmptyHash}

check_password(raw_pass, stored_hash, extra_salt, nonce) ==
    IF HasStoredHash(stored_hash)
    THEN bcrypt_check_password(raw_pass, stored_hash, extra_salt, nonce)
    ELSE [result |-> "None", work |-> <<>>]

PassTexts == { <<"p">>, <<"q">>, <<"s", ":", "p">> }
ExtraSalts == { NoneStr, <<>>, <<"s">>, <<"t">> }

NoAuth == [raw_pass |-> <<>>, extra_salt |-> NoneStr, stored_hash |-> NoHash,
           tried_pass |-> <<>>, tried_salt |-> NoneStr, result |-> "unset"]
NoWork == [check |-> <<>>, fake |-> <<>>, checked |-> FALSE, faked |-> FALSE]

AuthIdle ==
    /\ auth = NoAuth
    /\ work = NoWork

\* A user's password is set (create_user, change_pass).
SetPassword ==
    \E p \in PassTexts, s \in ExtraSalts, n \in Nonces :
        /\ auth' = [NoAuth EXCEPT !.raw_pass = p, !.extra_salt = s,
                                  !.stored_hash = gen_password_hash(p, s, n)]
        /\ work' = NoWork

\* A user has no password: pw_hash was never set, or is empty.
UnsetPassword ==
    \E h \in {NoHash, EmptyHash} :
        /\ auth' = [NoAuth EXCEPT !.stored_hash = h]
        /\ work' = NoWork

\* A login attempt for an existing user.
CheckPassword ==
    \E p \in PassTexts, s \in ExtraSalts, n \in Nonces :
        LET r == check_password(p, auth.stored_hash, s, n)
        IN  /\ auth' = [auth EXCEPT !.tried_pass = p, !.tried_salt = s,
                                    !.result = r.result]
            /\ work' = [work EXCEPT !.check = r.work, !.checked = TRUE]

\* A login attempt for a name no user has.
FakeLoginAttempt ==
    \E n \in Nonces :
        /\ work' = [work EXCEPT !.fake = fake_login_attempt(n),
                                !.faked = TRUE]
        /\ UNCHANGED auth

----------------------------------------------------------------------------
(* get_user and create_user of the basic_auth plugin *)

MaxUsers == 3

\* What a registration form submits as username (u'' when the field is
\* left empty; a name, or something that is another user's email) and as
\* email, and whether the form has a password field.
FormNames == {"", "bob", "eve", "bob@x"}
FormEmails == {"bob@x", "eve@x"}

NoUser == [id |-> NoId, username |-> "", email |-> "", pw_hash |-> NoHash]
NoCreated == [called |-> FALSE,
              form |-> [username |-> "", email |-> "", has_password |-> FALSE],
              before |-> <<>>,      \* the User table when called
              returned |-> NoUser,  \* NoUser stands for None
              saved |-> FALSE]      \* a new user was created and saved

UserIdle ==
    /\ users = <<>>
    /\ created = NoCreated

\* User.query.filter(or_(User.username == username, User.email == username))
MatchingUsers(table, username) ==
    {i \in 1..Len(table) :
        table[i].username = username \/ table[i].email = username}

\* get_user(username=...): the users .first() may give, or None (NoUser)
\* when nothing matches or when the name is empty or absent ("if username").
QueriesName(username) == username # ""

get_user(table, username) ==
    IF QueriesName(username) /\ MatchingUsers(table, username) # {}
    THEN {table[i] : i \in MatchingUsers(table, username)}
    ELSE {NoUser}

\* mediagoblin.auth.tools.create_basic_user: a new User row with the
\* form's username and email, saved.
create_basic_user(table, form) ==
    [id |-> Len(table) + 1, username |-> form.username,
     email |-> form.email, pw_hash |-> NoHash]

\* create_user(registration_form)
create_user ==
    /\ \E form \in [username : FormNames, email : FormEmails,
                    has_password : BOOLEAN] :
        \E user \in get_user(users, form.username), nonce \in Nonces :
            IF user = NoUser /\ form.has_password
            THEN LET new == [create_basic_user(users, form) EXCEPT
                               !.pw_hash = gen_password_hash(<<"p">>, NoneStr,
                                                             nonce)]
                 IN  /\ Len(users) < MaxUsers
                     /\ users' = Append(users, new)
                     /\ created' = [called |-> TRUE, form |-> form,
                                    before |-> users, returned |-> new,
                                    saved |-> TRUE]
            ELSE /\ users' = users
                 /\ created' = [called |-> TRUE, form |-> form,
                                before |-> users, returned |-> user,
                                saved |-> FALSE]

----------------------------------------------------------------------------
(* send_email and the test inboxes *)

MaxSends == 3

FromAddrs == {"noreply@a", "admin@a"}
ToLists == { <<>>, <<"x@b">>, <<"x@b", "y@c">> }

NoWorld == [calls |-> 0,       \* send_email calls so far
            opened |-> 0,      \* smtplib.SMTP(host, port) constructions
            connects |-> 0,    \* explicit mhost.connect() calls
            logins |-> 0,      \* logins on a real SMTP connection
            mails |-> <<>>,    \* mails handed to a real SMTP connection
            printed |-> 0,     \* mails printed by the debug mode
            cleared |-> FALSE] \* _clear_test_inboxes() has run

NoConfig == [tests_enabled |-> FALSE, email_debug_mode |-> FALSE,
             email_smtp_host |-> "", email_smtp_user |-> ""]

MailIdle ==
    /\ config = NoConfig
    /\ EMAIL_TEST_INBOX = <<>>
    /\ EMAIL_TEST_MBOX_INBOX = <<>>
    /\ world = NoWorld
    /\ sent = <<>>

\* The module is imported (both inboxes empty) under some configuration.
\* email_smtp_pass is left empty: the login test reads user or pass.
MailInit ==
    /\ config \in [tests_enabled : BOOLEAN, email_debug_mode : BOOLEAN,
                   email_smtp_host : {"", "localhost"},
                   email_smtp_user : {"", "goblin"}]
    /\ EMAIL_TEST_INBOX = <<>>
    /\ EMAIL_TEST_MBOX_INBOX = <<>>
    /\ world = NoWorld
    /\ sent = <<>>

\* ', '.join(to_addrs)
RECURSIVE JoinAddrs(_)
JoinAddrs(to_addrs) ==
    IF to_addrs = <<>> THEN <<>>
    ELSE IF Len(to_addrs) = 1 THEN to_addrs
    ELSE <<to_addrs[1], ", ">> \o JoinAddrs(Tail(to_addrs))

\* line 90: which mail host send_email talks to.
FakeOnlyInTests(tests_enabled, email_debug_mode) == tests_enabled
UsesFakeMhost(tests_enabled, email_debug_mode) ==
    tests_enabled \/ email_debug_mode

\* lines 107-110: the MIMEText message.
MimeText(from_addr, to_addrs, subject, message_body) ==
    [Subject |-> subject, From |-> from_addr, To |-> JoinAddrs(to_addrs),
     payload |-> message_body]

\* FakeMhost.sendmail (lines 61-65): the record appended to the mbox inbox.
MboxRecord(from_addr, to_addrs, message) ==
    [from |-> from_addr, to |-> to_addrs, message |-> message]

_clear_test_inboxes ==
    /\ EMAIL_TEST_INBOX' = <<>>
    /\ EMAIL_TEST_MBOX_INBOX' = <<>>
    /\ sent' = <<>>
    /\ world' = [world EXCEPT !.cleared = TRUE]
    /\ UNCHANGED config

send_email ==
    /\ world.calls < MaxSends
    /\ \E from_addr \in FromAddrs, to_addrs \in ToLists :
        LET fake == UsesFakeMhost(config.tests_enabled,
                                  config.email_debug_mode)
            login == config.email_smtp_user # ""
            message == MimeText(from_addr, to_addrs, "subject", "body")
        IN  /\ EMAIL_TEST_INBOX' =
                  IF config.tests_enabled
                  THEN Append(EMAIL_TEST_INBOX, message)
                  ELSE EMAIL_TEST_INBOX
            /\ EMAIL_TEST_MBOX_INBOX' =
                  IF fake
                  THEN Append(EMAIL_TEST_MBOX_INBOX,
                              MboxRecord(from_addr, to_addrs, message))
                  ELSE EMAIL_TEST_MBOX_INBOX
            /\ world' = [world EXCEPT
                  !.calls = @ + 1,
                  !.opened = IF fake THEN @ ELSE @ + 1,
                  !.connects = IF ~fake /\ config.email_smtp_host = ""
                               THEN @ + 1 ELSE @,
                  !.logins = IF ~fake /\ login THEN @ + 1 ELSE @,
                  !.mails = IF fake THEN @
                            ELSE Append(@, MboxRecord(from_addr, to_addrs,
                                                      message)),
                  !.printed = IF config.email_debug_mode THEN @ + 1 ELSE @]
            /\ sent' = Append(sent, [from |-> from_addr, to |-> to_addrs])
    /\ UNCHANGED config

----------------------------------------------------------------------------
(* Specifications *)

\* Slugs: entities are created or edited, slugged and saved, one at a time.
Init == SlugIdle /\ MediaIdle /\ AuthIdle /\ UserIdle /\ MailIdle
Next ==
    \/ (NewEntity /\ UNCHANGED <<mediaVars, authVars, userVars, mailVars>>)
    \/ (EditEntity /\ UNCHANGED <<mediaVars, authVars, userVars, mailVars>>)
    \/ (LoopIterate /\ UNCHANGED <<mediaVars, authVars, userVars, mailVars>>)
    \/ (LoopExit /\ UNCHANGED <<mediaVars, authVars, userVars, mailVars>>)
    \/ (Commit /\ UNCHANGED <<mediaVars, authVars, userVars, mailVars>>)
Spec == Init /\ [][Next]_vars

\* The entities of one owner and one kind (the only rows a call's
\* check_slug_used reads), from the forms that lead to the two bases "a"
\* and "a-2" and one that makes the call give up, with a running
\* generate_slug call always taking its next step; nothing is assumed of
\* the random suffixes.
RunningForms ==
    { [slug |-> NoneStr,      title |-> <<"A">>],
      [slug |-> <<>>,         title |-> <<"a", " ", "2">>],
      [slug |-> <<"!", " ">>, title |-> <<"A">>] }

NextRunning ==
    \/ (NewEntityOf({"media"}, {1}, RunningForms)
            /\ UNCHANGED <<mediaVars, authVars, userVars, mailVars>>)
    \/ (EditEntityOf(RunningForms)
            /\ UNCHANGED <<mediaVars, authVars, userVars, mailVars>>)
    \/ (LoopIterate /\ UNCHANGED <<mediaVars, authVars, userVars, mailVars>>)
    \/ (LoopExit /\ UNCHANGED <<mediaVars, authVars, userVars, mailVars>>)
    \/ (Commit /\ UNCHANGED <<mediaVars, authVars, userVars, mailVars>>)
SpecRunning ==
    /\ Init
    /\ [][NextRunning]_vars
    /\ WF_vars((LoopIterate \/ LoopExit)
                 /\ UNCHANGED <<mediaVars, authVars, userVars, mailVars>>)

\* Media entries and their managers.
InitMedia == SlugIdle /\ MediaInit /\ AuthIdle /\ UserIdle /\ MailIdle
NextMedia ==
    \/ (AccessMediaManager /\ UNCHANGED <<slugVars, authVars, userVars, mailVars>>)
    \/ (AccessThumbUrl /\ UNCHANGED <<slugVars, authVars, userVars, mailVars>>)
SpecMedia == InitMedia /\ [][NextMedia]_vars

\* Passwords.
InitAuth == SlugIdle /\ MediaIdle /\ AuthIdle /\ UserIdle /\ MailIdle
NextAuth ==
    \/ (SetPassword /\ UNCHANGED <<slugVars, mediaVars, userVars, mailVars>>)
    \/ (UnsetPassword /\ UNCHANGED <<slugVars, mediaVars, userVars, mailVars>>)
    \/ (CheckPassword /\ UNCHANGED <<slugVars, mediaVars, userVars, mailVars>>)
    \/ (FakeLoginAttempt /\ UNCHANGED <<slugVars, mediaVars, userVars, mailVars>>)
SpecAuth == InitAuth /\ [][NextAuth]_vars

\* Registration.
InitUsers == SlugIdle /\ MediaIdle /\ AuthIdle /\ UserIdle /\ MailIdle
NextUsers ==
    \/ (create_user /\ UNCHANGED <<slugVars, mediaVars, authVars, mailVars>>)
SpecUsers == InitUsers /\ [][NextUsers]_vars

\* Mail.
InitMail == SlugIdle /\ MediaIdle /\ AuthIdle /\ UserIdle /\ MailInit
NextMail ==
    \/ (_clear_test_inboxes /\ UNCHANGED <<slugVars, mediaVars, authVars, userVars>>)
    \/ (send_email /\ UNCHANGED <<slugVars, mediaVars, authVars, userVars>>)
SpecMail == InitMail /\ [][NextMail]_vars

----------------------------------------------------------------------------
(* Properties of generate_slug (checked under Spec and SpecRunning) *)

HexChars == {"0", "1", "2", "3", "4", "5", "6", "7", "8", "9",
             "a", "b", "c", "d", "e", "f"}

InCall == pc \in {"loop", "done"}

\* The committed rows another entity of the same owner and kind holds.
OthersOf(self) ==
    {r \in db : r.kind = self.kind /\ r.owner = self.owner /\ r.id # self.id}

\* C1: no two committed entities of one owner and one kind hold the same
\* non-null slug, and whenever generate_slug has returned with a non-null
\* slug, check_slug_used(self.slug) is false.
C1_SlugsUniquePerOwner ==
    /\ \A r1 \in db : \A r2 \in db :
          (/\ r1 # r2
           /\ r1.kind = r2.kind
           /\ r1.owner = r2.owner
           /\ r1.slug # NoneStr) => r1.slug # r2.slug
    /\ (pc = "done" /\ ent.slug # NoneStr) => ~check_slug_used(ent, ent.slug)

\* Two committed entities of one owner and kind, the slug of one being the
\* slug of the other plus a suffix: a collision was resolved.
C1_Witness ==
    \E r1 \in db : \E r2 \in db :
        /\ r1.kind = r2.kind
        /\ r1.owner = r2.owner
        /\ r1.slug # NoneStr
        /\ IsStrictPrefix(r1.slug, r2.slug)

\* A text makes a useful slug: it is there and its slugification is not
\* empty.
Useful(text) == Truthy(text) /\ slugify(text) # <<>>

\* C2: generate_slug leaves the slug unset only when neither the existing
\* slug nor the title gives a useful slug: if either slugifies to something
\* non-empty the call returns with a non-empty slug; if neither does the
\* slug is None, never the empty string, and check_slug_used is not called.
C2_BailsOnlyWithoutBasis ==
    pc = "done" =>
        /\ (Useful(call.slug0) \/ Useful(call.title0)) => Truthy(ent.slug)
        /\ (~Useful(call.slug0) /\ ~Useful(call.title0)) =>
              (ent.slug = NoneStr /\ call.checks = <<>>)

\* The basis as the claims describe it: the sanitized existing slug if the
\* entity has one, otherwise the slugified title.
BasisOf(slug0, title0) ==
    IF Truthy(slug0) THEN slugify(slug0)
    ELSE IF Truthy(title0) THEN slugify(title0)
    ELSE <<>>

\* C3: when the basis is non-empty and not in use, the slug becomes exactly
\* the basis, with no id or random suffix, and the title is never read when
\* the entity came with a slug.
C3_UnusedBasisIsTheSlug ==
    InCall =>
        LET basis == BasisOf(call.slug0, call.title0)
        IN  /\ (basis # <<>> /\ ~check_slug_used(ent, basis)) =>
                  /\ pc = "done"
                  /\ ent.slug = basis
                  /\ call.checks = <<basis>>
                  /\ call.randoms = 0
            /\ Truthy(call.slug0) => ~call.titleRead

\* Slug and title would give different slugs, and the slug's one was taken.
C3_Witness ==
    /\ pc = "done"
    /\ Useful(call.slug0)
    /\ Useful(call.title0)
    /\ slugify(call.slug0) # slugify(call.title0)
    /\ ent.slug = slugify(call.slug0)
    /\ call.checks = <<ent.slug>>

\* C4: when the basis is in use, the entity has an id and "<basis>-<id>" is
\* not in use, the slug becomes exactly "<basis>-<id>" and no random suffix
\* is generated; the id candidate is checked right after the basis; random
\* suffixes are generated only when the basis is in use and the entity has
\* no id or "<basis>-<id>" is in use too.
C4_IdBeforeRandom ==
    InCall =>
        LET basis == call.basis
            with_id == basis \o <<"-">> \o Decimal(ent.id)
        IN  /\ (/\ Truthy(basis)
                /\ check_slug_used(ent, basis)
                /\ ent.id # NoId
                /\ ~check_slug_used(ent, with_id)) =>
                  /\ pc = "done"
                  /\ ent.slug = with_id
                  /\ call.checks = <<basis, with_id>>
                  /\ call.randoms = 0
            /\ call.randoms > 0 =>
                  /\ check_slug_used(ent, basis)
                  /\ (ent.id = NoId \/ check_slug_used(ent, with_id))

\* The id resolved a collision.
C4_Witness ==
    /\ pc = "done"
    /\ ent.id # NoId
    /\ call.idTried
    /\ ent.slug = call.basis \o <<"-">> \o Decimal(ent.id)

\* An entity with an id went on to random suffixes, its id candidate being
\* in use.
C4_WitnessRandomWithId ==
    /\ InCall
    /\ ent.id # NoId
    /\ call.randoms > 0

\* C5: in the random fallback the slug is the basis (not the id-suffixed
\* candidate), then '-', then k >= 1 groups of 4 hexadecimal characters,
\* k being one more than the number of rejected random candidates; every
\* rejected candidate is a strict prefix of the slug.
C5_RandomKeepsBasis ==
    (InCall /\ call.randoms > 0) =>
        LET head == call.basis \o <<"-">>
            k == Len(call.rejected) + 1
        IN  /\ Truthy(call.basis)
            /\ IsPrefix(head, ent.slug)
            /\ Len(ent.slug) = Len(head) + 4 * k
            /\ \A i \in (Len(head) + 1)..Len(ent.slug) :
                  ent.slug[i] \in HexChars
            /\ call.randoms = k
            /\ \A i \in 1..Len(call.rejected) :
                  IsStrictPrefix(call.rejected[i], ent.slug)

\* The call returned after a random candidate was rejected.
C5_Witness ==
    /\ pc = "done"
    /\ Len(call.rejected) >= 1

\* The length of the longest slug another entity of the owner holds.
LongestUsed(self) ==
    LET lens == {Len(r.slug) : r \in {o \in OthersOf(self) : o.slug # NoneStr}}
    IN  IF lens = {} THEN 0
        ELSE CHOOSE n \in lens : \A m \in lens : m <= n

\* C6, as amended: generate_slug returns whatever suffixes the generator
\* draws.  Every rejected candidate is a slug in use and each candidate is
\* 4 characters longer than the one before, so a call rejects fewer than
\* LongestUsed / 4 candidates and then returns.
C6_AlwaysTerminates ==
    InCall =>
        /\ call.randoms > 0 =>
              Len(ent.slug) = Len(call.basis) + 1 + 4 * call.randoms
        /\ \A i \in 1..Len(call.rejected) :
              /\ check_slug_used(ent, call.rejected[i])
              /\ Len(call.rejected[i]) = Len(call.basis) + 1 + 4 * i
        /\ call.rejected # <<>> =>
              4 * Len(call.rejected) < LongestUsed(ent)

\* The same as a liveness property of SpecRunning: a call that has entered
\* the loop returns.
C6_Returns == (pc = "loop") ~> (pc = "done")

\* A call that rejected a random candidate has returned.
C6_Witness ==
    /\ pc = "done"
    /\ Len(call.rejected) >= 1
    /\ 4 * (Len(call.rejected) + 1) > LongestUsed(ent)

\* C6, as claimed: no number of iterations is enough without luck, that is,
\* whenever a candidate is rejected the generator can draw a suffix that
\* makes the next candidate collide too.
C6_CollisionAlwaysPossible ==
    (pc = "loop" /\ check_slug_used(ent, ent.slug)) =>
        \E r \in OthersOf(ent) :
            /\ r.slug # NoneStr
            /\ IsStrictPrefix(ent.slug, r.slug)
            /\ Len(r.slug) = Len(ent.slug) + 4

----------------------------------------------------------------------------
(* Properties of the password helpers (checked under SpecAuth) *)

\* C7: with the same extra salt at hashing and at checking, check_password
\* returns True for the password that was hashed and False for any other,
\* whichever random salt the second hashing round draws.
C7_RoundTrip ==
    (/\ work.checked
     /\ auth.stored_hash \notin {NoHash, EmptyHash}
     /\ auth.tried_salt = auth.extra_salt) =>
        auth.result = IF auth.tried_pass = auth.raw_pass
                      THEN "True" ELSE "False"

\* The right password was accepted and a wrong one can be rejected, with an
\* extra salt in use.
C7_Witness ==
    /\ work.checked
    /\ Truthy(auth.extra_salt)
    /\ auth.tried_salt = auth.extra_salt
    /\ auth.tried_pass = auth.raw_pass
    /\ auth.result = "True"

\* How often an operation occurs in a sequence of bcrypt operations.
Occurrences(ops, o) == Cardinality({i \in 1..Len(ops) : ops[i] = o})

OpsOf(ops) == {ops[i] : i \in 1..Len(ops)}

\* C8: a fake login attempt and a real password check do the same bcrypt
\* work: the same number of salt generations and of hash operations, each
\* at the same cost factor.
C8_FakeCostsTheSame ==
    (/\ work.checked
     /\ work.faked
     /\ auth.stored_hash \notin {NoHash, EmptyHash}) =>
        \A o \in OpsOf(work.check) \cup OpsOf(work.fake) :
            Occurrences(work.check, o) = Occurrences(work.fake, o)

----------------------------------------------------------------------------
(* Properties of send_email (checked under SpecMail) *)

\* C9: with tests enabled or email_debug_mode set, send_email opens no SMTP
\* connection; with tests enabled, the n calls since the inboxes were last
\* cleared left exactly n messages in EMAIL_TEST_INBOX and n records in
\* EMAIL_TEST_MBOX_INBOX, in call order, each record with its call's from
\* address and recipient list; with tests disabled and the debug mode off,
\* every call opened an SMTP connection.
C9_CaptureInsteadOfSending ==
    /\ (config.tests_enabled \/ config.email_debug_mode) =>
          (world.opened = 0 /\ world.mails = <<>>)
    /\ config.tests_enabled =>
          /\ Len(EMAIL_TEST_INBOX) = Len(sent)
          /\ Len(EMAIL_TEST_MBOX_INBOX) = Len(sent)
          /\ \A i \in 1..Len(sent) :
                /\ EMAIL_TEST_INBOX[i].From = sent[i].from
                /\ EMAIL_TEST_INBOX[i].To = JoinAddrs(sent[i].to)
                /\ EMAIL_TEST_MBOX_INBOX[i].from = sent[i].from
                /\ EMAIL_TEST_MBOX_INBOX[i].to = sent[i].to
    /\ (~config.tests_enabled /\ ~config.email_debug_mode) =>
          (world.opened = world.calls /\ Len(world.mails) = world.calls)

\* Mail was sent before and after a clearing of the inboxes, in test mode,
\* the two captured mails differing.
C9_Witness ==
    /\ config.tests_enabled
    /\ world.cleared
    /\ world.calls > Len(sent)
    /\ Len(sent) = 2
    /\ sent[1] # sent[2]

\* The debug mode alone keeps mail from being sent.
C9_WitnessDebug ==
    /\ ~config.tests_enabled
    /\ config.email_debug_mode
    /\ world.calls > 0
    /\ world.printed = world.calls

----------------------------------------------------------------------------
(* Properties of media_manager and thumb_url (checked under SpecMedia) *)

\* C10: asking for the media manager of an entry whose media type has no
\* registered handler raises FileTypeNotSupported and returns no manager;
\* thumb_url raises it only for an entry without a 'thumb' file, and with a
\* 'thumb' file returns the stored thumbnail's URL without reading the
\* media manager, whether or not the media type is supported.
C10_UnsupportedTypeRaises ==
    access.op # "none" =>
        LET e == entries[access.entry]
        IN  /\ (access.op = "media_manager" /\ e.media_type \notin registry) =>
                  /\ access.outcome = "FileTypeNotSupported"
                  /\ access.manager = NoManager
                  /\ e.manager = NoManager
            /\ (access.op = "thumb_url"
                    /\ access.outcome = "FileTypeNotSupported") =>
                  ~("thumb" \in e.media_files)
            /\ (access.op = "thumb_url" /\ "thumb" \in e.media_files) =>
                  /\ access.outcome = "returned"
                  /\ access.url = [via |-> "file_url", entry |-> access.entry,
                                    what |-> "thumb"]
                  /\ ~access.managerRead
                  /\ ~access.hookCalled

\* The thumbnail URL of an entry of an unsupported type was returned.
C10_Witness ==
    /\ access.op = "thumb_url"
    /\ entries[access.entry].media_type \notin registry
    /\ "thumb" \in entries[access.entry].media_files
    /\ access.outcome = "returned"

\* The media manager of an entry of an unsupported type was asked for.
C10_WitnessRaised ==
    /\ access.op = "media_manager"
    /\ entries[access.entry].media_type \notin registry
    /\ access.outcome = "FileTypeNotSupported"

----------------------------------------------------------------------------
(* Properties of create_user (checked under SpecUsers) *)

\* C11: create_user creates and saves a user only when no existing user has
\* the submitted name as username or email and the form has a password
\* field; when an existing user matches, the table is unchanged (its
\* pw_hash included) and that user is returned; so no two users of the
\* table, all created through create_user, share a username.
C11_NoDuplicateUsers ==
    /\ created.called =>
          LET matches == MatchingUsers(created.before, created.form.username)
          IN  /\ created.saved =>
                    (matches = {} /\ created.form.has_password)
              /\ matches # {} =>
                    /\ users = created.before
                    /\ created.returned \in
                          {created.before[i] : i \in matches}
    /\ \A i \in 1..Len(users) : \A j \in 1..Len(users) :
          i # j => users[i].username # users[j].username

----------------------------------------------------------------------------
(* Further properties of the password helpers (checked under SpecAuth) *)

\* C12: with an empty or missing stored hash check_password returns None,
\* never True, for every password and extra salt, and does no hashing; with
\* a stored hash it returns True or False.
C12_NoHashNoLogin ==
    work.checked =>
        /\ auth.stored_hash \in {NoHash, EmptyHash} =>
              (auth.result = "None" /\ work.check = <<>>)
        /\ auth.stored_hash \notin {NoHash, EmptyHash} =>
              (auth.result \in {"True", "False"} /\ work.check # <<>>)

\* A password was tried, with an extra salt, for a user whose stored hash
\* is the empty string.
C12_Witness ==
    /\ work.checked
    /\ auth.stored_hash = EmptyHash
    /\ Truthy(auth.tried_salt)
    /\ auth.result = "None"

\* No extra salt is None or the empty string; otherwise the salts are the
\* same when they are equal.
SameExtraSalt(s1, s2) == s1 = s2 \/ (~Truthy(s1) /\ ~Truthy(s2))

\* C13: check_password(p2, gen_password_hash(p1, s1), s2) is True only if
\* s1 and s2 are the same extra salt (or both none) and p1 = p2: a hash
\* stored under one extra salt never verifies under another or under none.
C13_SaltIsFactoredIn ==
    (work.checked /\ auth.result = "True") =>
        /\ SameExtraSalt(auth.extra_salt, auth.tried_salt)
        /\ auth.tried_pass = auth.raw_pass

====
